---- MODULE Spec2Model ----
(***************************************************************************)
(* A model of adafruit_rgb_display/rgb.py: the Display base class (window  *)
(* commands, pixel codec, chunked fill) over the abstract transport        *)
(* {write(command, data), read(command, count)}, and DisplaySPI, the SPI   *)
(* realisation of that transport (data/command pin, scoped bus             *)
(* acquisition, reset pulse, construction).                                *)
(*                                                                         *)
(* Python values that can be None or of several types are tagged records   *)
(* (PyNone, PyInt, PyTuple); byte strings are sequences of 0..255.         *)
(***************************************************************************)
EXTENDS Integers, Sequences, FiniteSets, TLC

\* ------------------------------------------------------------------ bounds
\* Largest panel width/height explored when no panel model is attached.
MaxDim == 3
\* Largest panel width/height explored with the RAM-storing panel attached.
MaxPanelDim == 2
\* Largest controller offset (x_offset / y_offset) explored.
MaxOffset == 1
\* Largest fill-buffer capacity explored (the code's _BUFFER_SIZE is 256,
\* 320*240 or pyftdi's payload limit // 2, fixed at import time).
MaxBuffer == 4
\* Number of transport calls the concurrent callers may start in one run.
MaxCalls == 2
\* Largest byte count passed to DisplaySPI.read.
MaxCount == 2

\* 16-bit colours passed to pixel / fill_rectangle (0xF800, 0x1234).
Colors == {63488, 4660}
\* Replies of a transport read of one pixel when no panel model is attached.
ReadSamples == {<<248, 0, 0>>, <<18, 52, 86>>, <<255, 255, 255>>}

VARIABLES
  width, height,      \* Display.width, Display.height
  X_START, Y_START,   \* Display._X_START, Display._Y_START
  BUFFER_SIZE,        \* module constant _BUFFER_SIZE
  INIT,               \* class attribute _INIT: sequence of <<command, data>>
  rst,                \* DisplaySPI.rst: "None" or "pin"
  ctor,               \* position of DisplaySPI.__init__ / Display.init ("ready" once returned)
  hw,                 \* what construction did so far: pin events, sleeps, writes
  lastOp,             \* the last Display operation: arguments, outcome, result
  calls,              \* the transport calls that operation issued, in order
  attached,           \* whether the transport is backed by the panel model
  panel,              \* the panel model: RAM, window registers, RAM pointer
  threads,            \* the callers using the SPI transport
  pc,                 \* per caller: position inside DisplaySPI.write / read
  call,               \* per caller: the transport call being executed
  dc_pin,             \* DisplaySPI.dc_pin.value
  holders,            \* callers inside a `with self.spi_device` block
  wire,               \* physical SPI transfers so far, in bus order
  buf,                \* per caller: read()'s local bytearray `data`
  nCalls,             \* transport calls started so far
  nAcq                \* bus acquisitions so far

cfgVars == <<width, height, X_START, Y_START, BUFFER_SIZE, INIT, rst>>
dispVars == <<lastOp, calls, attached, panel>>
ctorVars == <<ctor, hw>>
spiVars == <<threads, pc, call, dc_pin, holders, wire, buf, nCalls, nAcq>>
vars == <<cfgVars, dispVars, ctorVars, spiVars>>

\* ------------------------------------------------------------ Python values
PyNone == [type |-> "NoneType", val |-> <<>>]
PyInt(v) == [type |-> "int", val |-> <<v>>]
PyTuple(t) == [type |-> "tuple", val |-> t]

Min(a, b) == IF a < b THEN a ELSE b
Max(a, b) == IF a > b THEN a ELSE b

RECURSIVE Repeat(_, _)
\* bytes * n: n copies of s, the empty string when n <= 0.
Repeat(s, n) == IF n <= 0 THEN <<>> ELSE s \o Repeat(s, n - 1)

RECURSIVE Concat(_)
\* The concatenation of a sequence of byte strings.
Concat(ss) == IF ss = <<>> THEN <<>> ELSE Head(ss) \o Concat(Tail(ss))

\* -------------------------------------------------------------- PixelCodec
RECURSIVE BitAnd(_, _)
\* a & b for a, b >= 0.
BitAnd(a, b) ==
  IF a = 0 \/ b = 0 THEN 0
  ELSE (IF a % 2 = 1 /\ b % 2 = 1 THEN 1 ELSE 0) + 2 * BitAnd(a \div 2, b \div 2)

\* a | b for any integers, negative ones read as Python does (two's
\* complement of unbounded width): ~v = -v - 1, a | b = ~(~a & ~b), and
\* ~a & m = m - (a & m) for a, m >= 0.
BitOr(a, b) ==
  IF a >= 0 /\ b >= 0 THEN a + b - BitAnd(a, b)
  ELSE IF a >= 0 THEN -((-b - 1) - BitAnd(a, -b - 1)) - 1
  ELSE IF b >= 0 THEN -((-a - 1) - BitAnd(b, -a - 1)) - 1
  ELSE -BitAnd(-a - 1, -b - 1) - 1

\* v & m for a mask m >= 0 and any integer v (two's complement, as Python).
Mask(v, m) == BitAnd(v % 65536, m)

\* The blue channel shifted by 2 instead of 3: ... | b >> 2
color565_b_shift2(r, g, b) ==
  BitOr(BitOr(Mask(r, 248) * 256, Mask(g, 252) * 8), b \div 4)

\* The channels rounded to the nearest 565 level instead of truncated.
color565_rounded(r, g, b) ==
  BitOr(BitOr(Min(31, (r + 4) \div 8) * 2048, Min(63, (g + 2) \div 4) * 32),
        Min(31, (b + 4) \div 8))

\* color565(r, g, b): (r & 0xf8) << 8 | (g & 0xfc) << 3 | b >> 3
color565(r, g, b) ==
  BitOr(BitOr(Mask(r, 248) * 256, Mask(g, 252) * 8), b \div 8)

\* color565 as called: `r, g, b = r` unpacks a tuple or list given as first
\* argument (g and b are then ignored); an int cannot be unpacked (TypeError,
\* caught) and the three arguments are used; a sequence of another length
\* raises ValueError, which is not caught.
color565_unpack(a, g, b) ==
  IF a.type = "tuple"
  THEN IF Len(a.val) = 3
       THEN [raised |-> "", ret |-> color565(a.val[1], a.val[2], a.val[3])]
       ELSE [raised |-> "ValueError", ret |-> 0]
  ELSE [raised |-> "", ret |-> color565(a.val[1], g, b)]

\* struct.pack raises struct.error unless 0 <= v <= 0xFFFF for format H.
fits_H(v) == 0 <= v /\ v <= 65535

\* struct.pack(">H", v): two bytes, high byte first.
pack_H(v) == <<v \div 256, v % 256>>

\* Display._encode_pos: struct.pack(">HH", x, y)
encode_pos(x, y) == pack_H(x) \o pack_H(y)

\* The pixel packed low byte first ("<H").
encode_pixel_le(color) == <<color % 256, color \div 256>>

\* Display._encode_pixel: struct.pack(">H", color)
encode_pixel(color) == pack_H(color)

\* struct.calcsize(">BBB")
DecodeSize == 3

\* The three bytes taken as blue, green, red.
decode_pixel_bgr(data) == color565(data[3], data[2], data[1])

\* Display._decode_pixel: color565(*struct.unpack(">BBB", data))
decode_pixel(data) == color565(data[1], data[2], data[3])

\* --------------------------------------------------------- transport calls
\* self.write(command, data); command "None" and hasData FALSE stand for None.
WriteCall(command, hasData, data) ==
  [fn |-> "write", command |-> command, hasData |-> hasData, data |-> data]

\* self.read(command, count)
ReadCall(command, count) ==
  [fn |-> "read", command |-> command, count |-> count]

\* _block without the controller offset: the window of the logical coordinates.
block_unshifted(x0, y0, x1, y1, hasData, data) ==
  IF ~(fits_H(x0) /\ fits_H(x1)) THEN [calls |-> <<>>, raised |-> "struct.error"]
  ELSE IF ~(fits_H(y0) /\ fits_H(y1))
  THEN [calls |-> <<WriteCall("COLUMN_SET", TRUE, encode_pos(x0, x1))>>,
        raised |-> "struct.error"]
  ELSE [calls |-> <<WriteCall("COLUMN_SET", TRUE, encode_pos(x0, x1)),
                    WriteCall("PAGE_SET", TRUE, encode_pos(y0, y1)),
                    IF hasData THEN WriteCall("RAM_WRITE", TRUE, data)
                    ELSE ReadCall("RAM_READ",
                           (x1 - x0 + 1) * (y1 - y0 + 1) * DecodeSize)>>,
        raised |-> ""]

\* Display._block. hasData FALSE is data=None (a read). The arguments of each
\* self.write are evaluated before the call, so a position struct.pack cannot
\* encode raises before that write is issued.
block(x0, y0, x1, y1, hasData, data) ==
  IF ~(fits_H(x0 + X_START) /\ fits_H(x1 + X_START))
  THEN [calls |-> <<>>, raised |-> "struct.error"]
  ELSE
    LET col == WriteCall("COLUMN_SET", TRUE,
                         encode_pos(x0 + X_START, x1 + X_START))
    IN  IF ~(fits_H(y0 + Y_START) /\ fits_H(y1 + Y_START))
        THEN [calls |-> <<col>>, raised |-> "struct.error"]
        ELSE
          LET page == WriteCall("PAGE_SET", TRUE,
                                encode_pos(y0 + Y_START, y1 + Y_START))
          IN  IF ~hasData
              THEN [calls |-> <<col, page,
                                ReadCall("RAM_READ",
                                  (x1 - x0 + 1) * (y1 - y0 + 1) * DecodeSize)>>,
                    raised |-> ""]
              ELSE [calls |-> <<col, page, WriteCall("RAM_WRITE", TRUE, data)>>,
                    raised |-> ""]

\* The bounds test with <= for <: one column and one row too many.
InBounds_inclusive(x, y) == 0 <= x /\ x <= width /\ 0 <= y /\ y <= height

\* Display.pixel, the bounds test of a write.
InBounds(x, y) == 0 <= x /\ x < width /\ 0 <= y /\ y < height

\* Display.fill_rectangle, the clamping of its four arguments.
ClampX(x) == Min(width - 1, Max(0, x))
ClampY(y) == Min(height - 1, Max(0, y))
\* The width clamp without its upper limit.
ClampW_unlimited(x, w) == Max(1, w)
ClampW(x, w) == Min(width - ClampX(x), Max(1, w))
ClampH(y, h) == Min(height - ClampY(y), Max(1, h))

\* The chunk loop without the final write of the remainder.
FillChunks_no_rest(n, color) ==
  [i \in 1..(n \div BUFFER_SIZE) |->
     WriteCall("None", TRUE, Repeat(encode_pixel(color), BUFFER_SIZE))]

\* All the pixels in one write, whatever the buffer capacity.
FillChunks_single(n, color) ==
  <<WriteCall("None", TRUE, Repeat(encode_pixel(color), n))>>

\* Display.fill_rectangle, the data-only writes after the window and RAM-write.
FillChunks(n, color) ==
  LET chunks == n \div BUFFER_SIZE
      rest == n % BUFFER_SIZE
      pix == encode_pixel(color)
  IN  [i \in 1..chunks |-> WriteCall("None", TRUE, Repeat(pix, BUFFER_SIZE))]
        \o <<WriteCall("None", TRUE, Repeat(pix, rest))>>

\* Display.fill_rectangle: every transport call it issues. encode_pixel runs
\* after _block, so a colour that does not fit 16 bits raises after the window.
fill_rectangle(x, y, w, h, color) ==
  LET cx == ClampX(x)
      cy == ClampY(y)
      cw == ClampW(x, w)
      ch == ClampH(y, h)
      b == block(cx, cy, cx + cw - 1, cy + ch - 1, TRUE, <<>>)
  IN  IF b.raised # "" THEN b
      ELSE IF ~fits_H(color) THEN [calls |-> b.calls, raised |-> "struct.error"]
      ELSE [calls |-> b.calls \o FillChunks(cw * ch, color), raised |-> ""]

\* Display.pixel with a colour: the transport calls of a write.
pixel_write(x, y, color) ==
  IF ~InBounds(x, y) THEN [calls |-> <<>>, raised |-> ""]
  ELSE IF ~fits_H(color) THEN [calls |-> <<>>, raised |-> "struct.error"]
  ELSE block(x, y, x, y, TRUE, encode_pixel(color))

\* Display.pixel without a colour: the transport calls of a read.
pixel_read(x, y) == block(x, y, x, y, FALSE, <<>>)

\* An image as Display.image uses it: img.mode, img.size and img.getpixel.
\* The pixel at (x, y) has channels that differ in every position and are not
\* multiples of 8, so that order and truncation both show in the buffer; an
\* RGBA pixel has a fourth channel, a pixel of another mode is one value.
ImageOf(mode, w, h) ==
  [mode |-> mode, size |-> <<w, h>>,
   px |-> [at \in (0..(w - 1)) \X (0..(h - 1)) |->
             IF mode = "RGB" THEN <<64 * at[1] + 15, 64 * at[2] + 7, 201 - 8 * (at[1] + at[2])>>
             ELSE IF mode = "RGBA"
             THEN <<64 * at[1] + 15, 64 * at[2] + 7, 201 - 8 * (at[1] + at[2]), 255>>
             ELSE <<64 * at[1] + 15>>]]

\* img.rotate(rotation, expand=True) for 90, 180 and 270 degrees: the image
\* turned counter-clockwise, its size swapped for 90 and 270.
rotate(img, rotation) ==
  LET w == img.size[1]
      h == img.size[2]
  IN  CASE rotation = 90 ->
             [mode |-> img.mode, size |-> <<h, w>>,
              px |-> [at \in (0..(h - 1)) \X (0..(w - 1)) |->
                        img.px[<<w - 1 - at[2], at[1]>>]]]
        [] rotation = 180 ->
             [mode |-> img.mode, size |-> <<w, h>>,
              px |-> [at \in (0..(w - 1)) \X (0..(h - 1)) |->
                        img.px[<<w - 1 - at[1], h - 1 - at[2]>>]]]
        [] rotation = 270 ->
             [mode |-> img.mode, size |-> <<h, w>>,
              px |-> [at \in (0..(h - 1)) \X (0..(w - 1)) |->
                        img.px[<<at[2], h - 1 - at[1]>>]]]
        [] OTHER -> img

\* The rotation test that lets every multiple of 90 through.
ValidRotation_any90(rotation) == rotation % 90 = 0

\* Display.image: rotation not in (0, 90, 180, 270)
ValidRotation(rotation) == rotation \in {0, 90, 180, 270}

\* The buffer index of (x, y) counted down the columns.
PixelIndex_colmajor(x, y) == 2 * (x * height + y)

\* Display.image: the index of the high byte of the pixel at (x, y).
PixelIndex(x, y) == 2 * (y * width + x)

\* Display.image, the double loop: the bytearray after every (x, y) of the
\* panel has stored pix >> 8 and pix & 0xFF at its index.
ImagePixels(img) ==
  [k \in 1..(width * height * 2) |->
     LET at == CHOOSE q \in (0..(width - 1)) \X (0..(height - 1)) :
                 PixelIndex(q[1], q[2]) = 2 * ((k - 1) \div 2)
         pix == color565_unpack(PyTuple(img.px[at]), 0, 0).ret
     IN  IF (k - 1) % 2 = 0 THEN pix \div 256 ELSE pix % 256]

\* Display.image: the checks in the order of the code, the loop (color565
\* raises ValueError on the first pixel that is not a triple), one _block.
image(img, rotation) ==
  IF img.mode \notin {"RGB", "RGBA"} THEN [calls |-> <<>>, raised |-> "ValueError"]
  ELSE IF ~ValidRotation(rotation) THEN [calls |-> <<>>, raised |-> "ValueError"]
  ELSE
    LET im == IF rotation # 0 THEN rotate(img, rotation) ELSE img
    IN  IF im.size[1] # width \/ im.size[2] # height
        THEN [calls |-> <<>>, raised |-> "ValueError"]
        ELSE IF color565_unpack(PyTuple(im.px[<<0, 0>>]), 0, 0).raised # ""
        THEN [calls |-> <<>>, raised |-> "ValueError"]
        ELSE block(0, 0, width - 1, height - 1, TRUE, ImagePixels(im))

\* ------------------------------------------------------------- panel model
\* The controller on the other side of the transport: a RAM of 16-bit pixels,
\* a column and a page window register pair, and a RAM pointer that restarts
\* at the window's first pixel on every RAM-write / RAM-read command and
\* advances row-major inside the window. A read returns each pixel as three
\* bytes, the 565 fields re-expanded to the top bits of a byte.
RamCoords == 0..(MaxPanelDim + MaxOffset)

PanelInit ==
  [ram |-> [at \in RamCoords \X RamCoords |-> 0],
   cx0 |-> 0, cx1 |-> MaxPanelDim + MaxOffset,
   py0 |-> 0, py1 |-> MaxPanelDim + MaxOffset, ptr |-> 0]

U16(d, i) == d[i] * 256 + d[i + 1]

PanelCols(p) == Max(1, p.cx1 - p.cx0 + 1)
PanelRows(p) == Max(1, p.py1 - p.py0 + 1)
PanelAt(p) ==
  <<p.cx0 + (p.ptr % PanelCols(p)), p.py0 + ((p.ptr \div PanelCols(p)) % PanelRows(p))>>

PanelStoreOne(p, v) ==
  [p EXCEPT !.ram = IF PanelAt(p) \in DOMAIN p.ram
                    THEN [p.ram EXCEPT ![PanelAt(p)] = v] ELSE p.ram,
            !.ptr = (p.ptr + 1) % (PanelCols(p) * PanelRows(p))]

RECURSIVE PanelStore(_, _)
PanelStore(p, data) ==
  IF Len(data) < 2 THEN p
  ELSE PanelStore(PanelStoreOne(p, U16(data, 1)), SubSeq(data, 3, Len(data)))

PanelExpand(v) ==
  <<Mask(v \div 256, 248), Mask(v \div 8, 252), Mask(v * 8, 248)>>

PanelPixel(p, k) ==
  LET at == <<p.cx0 + (k % PanelCols(p)), p.py0 + ((k \div PanelCols(p)) % PanelRows(p))>>
  IN  IF at \in DOMAIN p.ram THEN p.ram[at] ELSE 0

PanelReply(p, count) ==
  IF count <= 0 THEN <<>>
  ELSE [i \in 1..count |-> PanelExpand(PanelPixel(p, (i - 1) \div 3))[((i - 1) % 3) + 1]]

PanelStep(p, c) ==
  IF c.fn = "read" THEN [p EXCEPT !.ptr = 0]
  ELSE IF c.command = "COLUMN_SET" /\ Len(c.data) = 4
  THEN [p EXCEPT !.cx0 = U16(c.data, 1), !.cx1 = U16(c.data, 3)]
  ELSE IF c.command = "PAGE_SET" /\ Len(c.data) = 4
  THEN [p EXCEPT !.py0 = U16(c.data, 1), !.py1 = U16(c.data, 3)]
  ELSE IF c.command = "RAM_WRITE" THEN PanelStore([p EXCEPT !.ptr = 0], c.data)
  ELSE IF c.command = "None" /\ c.hasData THEN PanelStore(p, c.data)
  ELSE p

RECURSIVE PanelRun(_, _)
\* The panel after a sequence of transport calls, and its reply to the last
\* read among them (the empty string when there is none).
PanelRun(p, cs) ==
  IF cs = <<>> THEN [panel |-> p, reply |-> <<>>]
  ELSE LET q == PanelStep(p, Head(cs))
           r == PanelRun(q, Tail(cs))
       IN  IF Tail(cs) = <<>> /\ Head(cs).fn = "read"
           THEN [panel |-> q, reply |-> PanelReply(q, Head(cs).count)]
           ELSE r

\* --------------------------------------------------- Display operations
\* Arguments a client passes: one below the panel to one past it.
XArgs == (-1)..width
YArgs == (-1)..height
WArgs == (-1)..(width + 1)
HArgs == (-1)..(height + 1)
\* Rectangles fully inside the panel: <<x, y, width, height>>.
InsideRects ==
  {r \in (0..(width - 1)) \X (0..(height - 1)) \X (1..width) \X (1..height) :
     r[1] + r[3] <= width /\ r[2] + r[4] <= height}
AnyRects == XArgs \X YArgs \X WArgs \X HArgs

NoOp == [op |-> "none", raised |-> "", ret |-> PyNone]

\* No operation is in progress: the last one has returned to its caller.
Idle == ctor = "ready" /\ lastOp.op = "none"

\* The transport calls `cs` reach the transport, and the panel behind it.
Issue(cs) ==
  /\ calls' = cs
  /\ panel' = IF attached THEN PanelRun(panel, cs).panel ELSE panel
  /\ UNCHANGED <<cfgVars, attached, ctorVars, spiVars>>

\* Display.pixel(x, y, color)
WritePixelIn(XS, YS) ==
  \E x \in XS, y \in YS, color \in Colors :
    LET r == pixel_write(x, y, color)
    IN  /\ lastOp' = [op |-> "write_pixel", x |-> x, y |-> y, color |-> color,
                      raised |-> r.raised, ret |-> PyNone]
        /\ Issue(r.calls)

\* Display.pixel(x, y)
ReadPixelIn(XS, YS) ==
  \E x \in XS, y \in YS :
    LET r == pixel_read(x, y)
    IN  \E reply \in (IF r.raised # "" THEN {<<>>}
                      ELSE IF attached THEN {PanelRun(panel, r.calls).reply}
                      ELSE ReadSamples) :
          /\ lastOp' = [op |-> "read_pixel", x |-> x, y |-> y,
                        raised |-> r.raised, reply |-> reply,
                        ret |-> IF r.raised # "" THEN PyNone
                                ELSE PyInt(decode_pixel(reply))]
          /\ Issue(r.calls)

\* Display.fill_rectangle(x, y, width, height, color)
FillRectangleIn(RS) ==
  \E a \in RS, color \in Colors :
    LET r == fill_rectangle(a[1], a[2], a[3], a[4], color)
    IN  /\ lastOp' = [op |-> "fill_rectangle", x |-> a[1], y |-> a[2],
                      w |-> a[3], h |-> a[4], color |-> color,
                      raised |-> r.raised, ret |-> PyNone]
        /\ Issue(r.calls)

\* Display.fill(color)
FillAll ==
  \E color \in Colors :
    LET r == fill_rectangle(0, 0, width, height, color)
    IN  /\ lastOp' = [op |-> "fill", x |-> 0, y |-> 0, w |-> width,
                      h |-> height, color |-> color, raised |-> r.raised,
                      ret |-> PyNone]
        /\ Issue(r.calls)

\* Modes and rotations a client passes to image.
ImageModes == {"RGB", "RGBA", "L"}
Rotations == {0, 90, 180, 270, 45, 360}

\* Display.image(img, rotation) for images of the sizes WS x HS.
ImageIn(MS, RS, WS, HS) ==
  \E mode \in MS, rotation \in RS, w \in WS, h \in HS :
    LET r == image(ImageOf(mode, w, h), rotation)
    IN  /\ lastOp' = [op |-> "image", img |-> ImageOf(mode, w, h),
                      rotation |-> rotation, raised |-> r.raised, ret |-> PyNone]
        /\ Issue(r.calls)

\* Display.hline(x, y, width, color)
HLine ==
  /\ Idle
  /\ \E x \in XArgs, y \in YArgs, w \in WArgs, color \in Colors :
       LET r == fill_rectangle(x, y, w, 1, color)
       IN  /\ lastOp' = [op |-> "hline", x |-> x, y |-> y, w |-> w, h |-> 1,
                         color |-> color, raised |-> r.raised, ret |-> PyNone]
           /\ Issue(r.calls)

\* Display.vline(x, y, height, color)
VLine ==
  /\ Idle
  /\ \E x \in XArgs, y \in YArgs, h \in HArgs, color \in Colors :
       LET r == fill_rectangle(x, y, 1, h, color)
       IN  /\ lastOp' = [op |-> "vline", x |-> x, y |-> y, w |-> 1, h |-> h,
                         color |-> color, raised |-> r.raised, ret |-> PyNone]
           /\ Issue(r.calls)

\* A client that calls one operation with any arguments and looks at what
\* reached the transport.
WritePixel == Idle /\ WritePixelIn(XArgs, YArgs)
ReadPixel == Idle /\ ReadPixelIn(XArgs, YArgs)
FillRectangle == Idle /\ FillRectangleIn(AnyRects)
Fill == Idle /\ FillAll

\* The operation has returned; what the caller saw of it is dropped.
Return ==
  /\ ctor = "ready"
  /\ lastOp.op # "none"
  /\ lastOp' = NoOp
  /\ calls' = <<>>
  /\ UNCHANGED <<cfgVars, attached, panel, ctorVars, spiVars>>

Image == Idle /\ ImageIn(ImageModes, Rotations, 1..MaxDim, 1..MaxDim)

DisplayOp ==
  \/ WritePixel \/ ReadPixel \/ FillRectangle \/ Fill \/ HLine \/ VLine \/ Image

\* Channel values a client passes to color565: every value of 0..255 and
\* some outside it for one channel, with the other two drawn from a sample
\* (both ends, values that are not multiples of 8, values out of range).
ChannelsOutOfRange == {-256, -1, 256, 70000}
ChannelSample == {0, 7, 100, 248, 255} \cup ChannelsOutOfRange
ChannelAll == (0..255) \cup ChannelsOutOfRange
ChannelTriples ==
  (ChannelAll \X ChannelSample \X ChannelSample)
    \cup (ChannelSample \X ChannelAll \X ChannelSample)
    \cup (ChannelSample \X ChannelSample \X ChannelAll)

\* color565(r, g, b), color565((r, g, b)) and color565 of a four-tuple.
Color565Call ==
  /\ Idle
  /\ \E t \in ChannelTriples, form \in {"ints", "tuple", "tuple4"} :
       LET r == t[1]
           g == t[2]
           b == t[3]
           c == CASE form = "ints" -> color565_unpack(PyInt(r), g, b)
                  [] form = "tuple" -> color565_unpack(PyTuple(<<r, g, b>>), 0, 0)
                  [] OTHER -> color565_unpack(PyTuple(<<r, g, b, 255>>), 0, 0)
       IN  /\ form = "tuple4" => (g = 0 /\ b = 0)
           /\ lastOp' = [op |-> "color565", form |-> form, r |-> r, g |-> g,
                         b |-> b, raised |-> c.raised,
                         ret |-> IF c.raised # "" THEN PyNone ELSE PyInt(c.ret)]
  /\ UNCHANGED <<cfgVars, calls, attached, panel, ctorVars, spiVars>>

\* A client of a display under construction: it holds the instance only once
\* __init__ has returned, then draws inside the panel.
CtorWritePixel == Idle /\ WritePixelIn(0..(width - 1), 0..(height - 1))
CtorReadPixel == Idle /\ ReadPixelIn({0}, {0})
CtorFill == Idle /\ FillAll
CtorImage == Idle /\ ImageIn({"RGB"}, {0}, {width}, {height})
CtorOp == CtorWritePixel \/ CtorReadPixel \/ CtorFill \/ CtorImage

\* A client that draws inside the panel and reads it back, one operation
\* after the other, against the panel model.
PanelWritePixel == ctor = "ready" /\ WritePixelIn(0..(width - 1), 0..(height - 1))
PanelReadPixel == ctor = "ready" /\ ReadPixelIn(0..(width - 1), 0..(height - 1))
PanelFillRectangle == ctor = "ready" /\ FillRectangleIn(InsideRects)
PanelFill == ctor = "ready" /\ FillAll

\* ------------------------------------------------------------ SPI transport
\* DisplaySPI.write and DisplaySPI.read, one step per statement that touches
\* the pin, the bus lock or the bus. `with self.spi_device as spi` is
\* SPIDevice.__enter__ (spin on try_lock until the bus is free, then select
\* the chip) and SPIDevice.__exit__ (deselect, unlock), the latter run on
\* normal exit and when the body raises.
Callers == {"A", "B"}
\* Arguments of the transport calls the callers make.
SpiCommands == {"None", "RAM_WRITE"}
SpiData == {<<>>, <<17, 34>>}
\* The byte the device clocks out on a read (the buffer starts as zeros).
DeviceBytes == {165}

SpiIdle ==
  /\ pc = [c \in Callers |-> "idle"]
  /\ call = [c \in Callers |-> [fn |-> "none", id |-> 0, acq |-> 0]]
  /\ dc_pin = 0
  /\ holders = {}
  /\ wire = <<>>
  /\ buf = [c \in Callers |-> <<>>]
  /\ nCalls = 0
  /\ nAcq = 0

\* One physical transfer as seen on the bus: who made it, for which call, in
\* which of the bus acquisitions, the level of the data/command pin while it ran and
\* whether the caller held the bus.
Transfer(c, kind, bytes) ==
  [caller |-> c, id |-> call[c].id, kind |-> kind, bytes |-> bytes,
   dc |-> dc_pin, acq |-> call[c].acq, held |-> c \in holders]

Goto(c, label) == pc' = [pc EXCEPT ![c] = label]

\* A caller enters DisplaySPI.write(command, data).
StartWrite(c) ==
  /\ c \in threads
  /\ pc[c] \in {"idle", "returned", "raised"}
  /\ nCalls < MaxCalls
  /\ \E command \in SpiCommands, hasData \in BOOLEAN, data \in SpiData :
       /\ (~hasData => data = <<>>)
       /\ call' = [call EXCEPT ![c] =
                     WriteCall(command, hasData, data)
                       @@ [id |-> nCalls + 1, acq |-> 0]]
       /\ Goto(c, IF command # "None" THEN "w262"
                  ELSE IF hasData THEN "w266" ELSE "returned")
  /\ nCalls' = nCalls + 1
  /\ UNCHANGED <<cfgVars, dispVars, ctorVars, threads, dc_pin, holders, wire, buf, nAcq>>

\* A caller enters DisplaySPI.read(command, count): data = bytearray(count).
StartRead(c) ==
  /\ c \in threads
  /\ pc[c] \in {"idle", "returned", "raised"}
  /\ nCalls < MaxCalls
  /\ \E command \in SpiCommands, count \in {0, MaxCount} :
       /\ call' = [call EXCEPT ![c] =
                     ReadCall(command, count) @@ [id |-> nCalls + 1, acq |-> 0]]
       /\ buf' = [buf EXCEPT ![c] = Repeat(<<0>>, count)]
  /\ Goto(c, "r273")
  /\ nCalls' = nCalls + 1
  /\ UNCHANGED <<cfgVars, dispVars, ctorVars, threads, dc_pin, holders, wire, nAcq>>

\* The pin left as it is where the code drives it low.
DcLow_skipped(c) ==
  /\ pc[c] \in {"w262", "r273"}
  /\ Goto(c, IF pc[c] = "w262" THEN "w263" ELSE "r274")
  /\ UNCHANGED <<cfgVars, dispVars, ctorVars, threads, call, dc_pin, holders, wire, buf, nCalls, nAcq>>

\* self.dc_pin.value = 0 (write, before the command; read, before the bus).
DcLow(c) ==
  /\ pc[c] \in {"w262", "r273"}
  /\ dc_pin' = 0
  /\ Goto(c, IF pc[c] = "w262" THEN "w263" ELSE "r274")
  /\ UNCHANGED <<cfgVars, dispVars, ctorVars, threads, call, holders, wire, buf, nCalls, nAcq>>

\* The pin left as it is where the code drives it high.
DcHigh_skipped(c) ==
  /\ pc[c] = "w266"
  /\ Goto(c, "w267")
  /\ UNCHANGED <<cfgVars, dispVars, ctorVars, threads, call, dc_pin, holders, wire, buf, nCalls, nAcq>>

\* self.dc_pin.value = 1 (write, before the data).
DcHigh(c) ==
  /\ pc[c] = "w266"
  /\ dc_pin' = 1
  /\ Goto(c, "w267")
  /\ UNCHANGED <<cfgVars, dispVars, ctorVars, threads, call, holders, wire, buf, nCalls, nAcq>>

\* Where a caller stands once it is inside the `with` block it was entering.
Inside(c) ==
  CASE pc[c] = "w263" -> "w264"
    [] pc[c] = "w267" -> "w268"
    [] OTHER -> IF call[c].command # "None" THEN "r276"
                ELSE IF call[c].count # 0 THEN "r278" ELSE "exit"

\* Entering the block without waiting for the bus to be free.
Enter_no_wait(c) ==
  /\ pc[c] \in {"w263", "w267", "r274"}
  /\ holders' = holders \cup {c}
  /\ nAcq' = nAcq + 1
  /\ call' = [call EXCEPT ![c].acq = nAcq + 1]
  /\ Goto(c, Inside(c))
  /\ UNCHANGED <<cfgVars, dispVars, ctorVars, threads, dc_pin, wire, buf, nCalls>>

\* with self.spi_device as spi: the bus is taken once no one holds it.
Enter(c) ==
  /\ pc[c] \in {"w263", "w267", "r274"}
  /\ holders = {}
  /\ holders' = holders \cup {c}
  /\ nAcq' = nAcq + 1
  /\ call' = [call EXCEPT ![c].acq = nAcq + 1]
  /\ Goto(c, Inside(c))
  /\ UNCHANGED <<cfgVars, dispVars, ctorVars, threads, dc_pin, wire, buf, nCalls>>

\* spi.write(bytearray([command])): the transfer runs, or the bus raises.
SendCommand(c) ==
  /\ pc[c] \in {"w264", "r276"}
  /\ \/ /\ wire' = Append(wire, Transfer(c, "command", <<call[c].command>>))
        /\ Goto(c, IF pc[c] = "w264" THEN "exit"
                   ELSE IF call[c].count # 0 THEN "r278" ELSE "exit")
     \/ /\ wire' = wire
        /\ Goto(c, "exit_raise")
  /\ UNCHANGED <<cfgVars, dispVars, ctorVars, threads, call, dc_pin, holders, buf, nCalls, nAcq>>

\* spi.write(data): the transfer runs, or the bus raises.
SendData(c) ==
  /\ pc[c] = "w268"
  /\ \/ /\ wire' = Append(wire, Transfer(c, "data", call[c].data))
        /\ Goto(c, "exit")
     \/ /\ wire' = wire
        /\ Goto(c, "exit_raise")
  /\ UNCHANGED <<cfgVars, dispVars, ctorVars, threads, call, dc_pin, holders, buf, nCalls, nAcq>>

\* spi.readinto(data): the device fills the buffer, whatever its length, or
\* the bus raises.
ReadInto(c) ==
  /\ pc[c] = "r278"
  /\ \/ \E b \in DeviceBytes :
          /\ buf' = [buf EXCEPT ![c] = Repeat(<<b>>, Len(buf[c]))]
          /\ wire' = Append(wire, Transfer(c, "readinto", Repeat(<<b>>, Len(buf[c]))))
          /\ Goto(c, "exit")
     \/ /\ UNCHANGED <<buf, wire>>
        /\ Goto(c, "exit_raise")
  /\ UNCHANGED <<cfgVars, dispVars, ctorVars, threads, call, dc_pin, holders, nCalls, nAcq>>

\* The end of a `with` block on the normal path: the bus is released; write
\* goes on to its data part after the command, otherwise the call returns.
Exit(c) ==
  /\ pc[c] = "exit"
  /\ holders' = holders \ {c}
  /\ Goto(c, IF call[c].fn = "write" /\ call[c].hasData
                /\ ~(\E i \in 1..Len(wire) :
                       wire[i].id = call[c].id /\ wire[i].kind = "data")
             THEN "w266" ELSE "returned")
  /\ UNCHANGED <<cfgVars, dispVars, ctorVars, threads, call, dc_pin, wire, buf, nCalls, nAcq>>

\* The exception leaving the block with the bus still held (an unlock that
\* is not in a finally clause).
ExitRaise_leak(c) ==
  /\ pc[c] = "exit_raise"
  /\ Goto(c, "raised")
  /\ UNCHANGED <<cfgVars, dispVars, ctorVars, threads, call, dc_pin, holders, wire, buf, nCalls, nAcq>>

\* The end of a `with` block whose body raised: the bus is released and the
\* exception leaves write / read.
ExitRaise(c) ==
  /\ pc[c] = "exit_raise"
  /\ holders' = holders \ {c}
  /\ Goto(c, "raised")
  /\ UNCHANGED <<cfgVars, dispVars, ctorVars, threads, call, dc_pin, wire, buf, nCalls, nAcq>>

SpiStep(c) ==
  \/ StartWrite(c) \/ StartRead(c) \/ DcLow(c) \/ DcHigh(c) \/ Enter(c)
  \/ SendCommand(c) \/ SendData(c) \/ ReadInto(c) \/ Exit(c) \/ ExitRaise(c)

\* ------------------------------------------------------------ construction
\* DisplaySPI.__init__, one step per statement with an outside effect, then
\* Display.__init__ and Display.init. `hw` lists those effects in order.
\* Init tables a controller subclass may set as _INIT (data None: hasData FALSE).
InitTables ==
  {<<>>,
   <<WriteCall("SLPOUT", FALSE, <<>>)>>,
   <<WriteCall("SWRESET", FALSE, <<>>), WriteCall("COLMOD", TRUE, <<5>>),
     WriteCall("DISPON", FALSE, <<>>)>>}

PinEvent(ev, value) == [ev |-> ev, value |-> value]
SleepEvent(ms) == [ev |-> "sleep", ms |-> ms]
WriteEvent(c) == [ev |-> "write", command |-> c.command, hasData |-> c.hasData,
                  data |-> c.data]

CtorTo(label, events) ==
  /\ ctor' = label
  /\ hw' = hw \o events
  /\ UNCHANGED <<cfgVars, dispVars, threads, pc, call, holders, wire, buf, nCalls, nAcq>>

\* Construction that goes on to Display.__init__ without the reset pulse.
DcOutput_no_reset ==
  /\ ctor = "c242"
  /\ dc_pin' = 0
  /\ CtorTo("c248", <<PinEvent("dc_output", 0)>>)

\* self.dc_pin.switch_to_output(value=0); then `if self.rst:`
DcOutput ==
  /\ ctor = "c242"
  /\ dc_pin' = 0
  /\ CtorTo(IF rst # "None" THEN "c244" ELSE "c248", <<PinEvent("dc_output", 0)>>)

\* self.rst.switch_to_output(value=0)
RstOutput ==
  /\ ctor = "c244"
  /\ dc_pin' = dc_pin
  /\ CtorTo("c253", <<PinEvent("rst_output", 0)>>)

\* DisplaySPI.reset: self.rst.value = 0
ResetLow ==
  /\ ctor = "c253"
  /\ dc_pin' = dc_pin
  /\ CtorTo("c254", <<PinEvent("rst", 0)>>)

\* DisplaySPI.reset: time.sleep(0.050), after the low and after the high level
ResetSleep ==
  /\ ctor \in {"c254", "c256"}
  /\ dc_pin' = dc_pin
  /\ CtorTo(IF ctor = "c254" THEN "c255" ELSE "c248", <<SleepEvent(50)>>)

\* DisplaySPI.reset: self.rst.value = 1
ResetHigh ==
  /\ ctor = "c255"
  /\ dc_pin' = dc_pin
  /\ CtorTo("c256", <<PinEvent("rst", 1)>>)

\* Exceptions the transport can raise from write (the bus driver's errors).
TransportErrors == {"OSError", "RuntimeError"}
\* How many times a client calls init() again on a constructed display.
MaxInitAgain == 1

\* A self.write of Display.init that raised instead of returning.
RaisedEvent(c, exc) == [ev |-> "write_raised", command |-> c.command,
                        hasData |-> c.hasData, data |-> c.data, exc |-> exc]
\* A client's call of init() on the constructed display.
InitCallEvent == [ev |-> "init_call"]

\* Where the running (or last) execution of Display.init starts in hw: after
\* the last client call of init(), or at the start for the one of __init__.
InitStart ==
  LET marks == {i \in 1..Len(hw) : hw[i].ev = "init_call"}
  IN  IF marks = {} THEN 0 ELSE CHOOSE i \in marks : \A j \in marks : j <= i

\* The init commands written so far by the running (or last) Display.init.
InitWritten ==
  SelectSeq(SubSeq(hw, InitStart + 1, Len(hw)), LAMBDA e : e.ev = "write")

\* The instance after init() raised: none when construction was running
\* (the exception leaves __init__), the same display when a client called it.
AfterRaise == IF ctor = "c248" THEN "failed" ELSE "ready"

\* A loop that goes on to __init__'s return before the table is finished.
InitDone_early ==
  /\ ctor \in {"c248", "c140"}
  /\ Len(InitWritten) <= Len(INIT)
  /\ ctor' = "ready"
  /\ hw' = hw
  /\ lastOp' = IF ctor = "c140"
               THEN [op |-> "init", raised |-> "", ret |-> PyNone] ELSE lastOp
  /\ UNCHANGED <<cfgVars, calls, attached, panel, spiVars>>

\* A loop that calls self.write again after it raised, once.
InitWrite_retry ==
  /\ ctor \in {"c248", "c140"}
  /\ Len(InitWritten) < Len(INIT)
  /\ \/ /\ ctor' = ctor
        /\ hw' = Append(hw, WriteEvent(INIT[Len(InitWritten) + 1]))
        /\ lastOp' = lastOp
     \/ \E exc \in TransportErrors :
          /\ hw' = Append(hw, RaisedEvent(INIT[Len(InitWritten) + 1], exc))
          /\ IF \E i \in 1..Len(hw) : hw[i].ev = "write_raised"
             THEN /\ ctor' = AfterRaise
                  /\ lastOp' = [op |-> IF ctor = "c248" THEN "__init__" ELSE "init",
                                raised |-> exc, ret |-> PyNone]
             ELSE /\ ctor' = ctor
                  /\ lastOp' = lastOp
  /\ UNCHANGED <<cfgVars, calls, attached, panel, spiVars>>

\* Display.init: the next self.write(command, data) of the loop over _INIT; the
\* call returns, or the transport raises and the exception leaves init (and
\* __init__, when construction called it) as it is: nothing catches it.
InitWrite ==
  /\ ctor \in {"c248", "c140"}
  /\ Len(InitWritten) < Len(INIT)
  /\ \/ /\ ctor' = ctor
        /\ hw' = Append(hw, WriteEvent(INIT[Len(InitWritten) + 1]))
        /\ lastOp' = lastOp
     \/ \E exc \in TransportErrors :
          /\ ctor' = AfterRaise
          /\ hw' = Append(hw, RaisedEvent(INIT[Len(InitWritten) + 1], exc))
          /\ lastOp' = [op |-> IF ctor = "c248" THEN "__init__" ELSE "init",
                        raised |-> exc, ret |-> PyNone]
  /\ UNCHANGED <<cfgVars, calls, attached, panel, spiVars>>

\* Display.init has run through _INIT: __init__ returns the display, or the
\* client's init() call returns.
InitDone ==
  /\ ctor \in {"c248", "c140"}
  /\ Len(InitWritten) = Len(INIT)
  /\ ctor' = "ready"
  /\ hw' = hw
  /\ lastOp' = IF ctor = "c140"
               THEN [op |-> "init", raised |-> "", ret |-> PyNone] ELSE lastOp
  /\ UNCHANGED <<cfgVars, calls, attached, panel, spiVars>>

\* A client calls init() on the constructed display: the loop runs again.
InitAgain ==
  /\ ctor = "ready"
  /\ lastOp.op = "none"
  /\ Cardinality({i \in 1..Len(hw) : hw[i].ev = "init_call"}) < MaxInitAgain
  /\ ctor' = "c140"
  /\ hw' = Append(hw, InitCallEvent)
  /\ UNCHANGED <<cfgVars, dispVars, spiVars>>

CtorStep ==
  \/ DcOutput \/ RstOutput \/ ResetLow \/ ResetSleep \/ ResetHigh
  \/ InitWrite \/ InitDone

\* -------------------------------------------------------- specifications
\* A constructed display (DisplaySPI.__init__ has returned) over a transport
\* that records the calls and answers reads with any bytes.
ConfigInit(maxDim) ==
  /\ width \in 1..maxDim
  /\ height \in 1..maxDim
  /\ X_START \in 0..MaxOffset
  /\ Y_START \in {0, MaxOffset}
  /\ BUFFER_SIZE \in 1..MaxBuffer

Init ==
  /\ ConfigInit(MaxDim)
  /\ INIT = <<>>
  /\ rst = "None"
  /\ ctor = "ready"
  /\ hw = <<>>
  /\ lastOp = NoOp
  /\ calls = <<>>
  /\ attached = FALSE
  /\ panel = PanelInit
  /\ threads = {}
  /\ SpiIdle

Next == DisplayOp \/ Return

Spec == Init /\ [][Next]_vars

\* The same display with the panel model behind the transport.
InitPanel ==
  /\ ConfigInit(MaxPanelDim)
  /\ X_START = Y_START
  /\ INIT = <<>>
  /\ rst = "None"
  /\ ctor = "ready"
  /\ hw = <<>>
  /\ lastOp = NoOp
  /\ calls = <<>>
  /\ attached = TRUE
  /\ panel = PanelInit
  /\ threads = {}
  /\ SpiIdle

NextPanel == PanelWritePixel \/ PanelReadPixel \/ PanelFillRectangle \/ PanelFill

SpecPanel == InitPanel /\ [][NextPanel]_vars

\* A client of the module-level function color565.
InitCodec ==
  /\ width = 1 /\ height = 1 /\ X_START = 0 /\ Y_START = 0
  /\ BUFFER_SIZE = 1
  /\ INIT = <<>>
  /\ rst = "None"
  /\ ctor = "ready"
  /\ hw = <<>>
  /\ lastOp = NoOp
  /\ calls = <<>>
  /\ attached = FALSE
  /\ panel = PanelInit
  /\ threads = {}
  /\ SpiIdle

NextCodec == Color565Call \/ Return

SpecCodec == InitCodec /\ [][NextCodec]_vars

\* One or two callers driving the SPI transport of a constructed display with
\* write and read calls, interleaved at every statement.
InitSPI ==
  /\ width = 1 /\ height = 1 /\ X_START = 0 /\ Y_START = 0
  /\ BUFFER_SIZE = 1
  /\ INIT = <<>>
  /\ rst = "None"
  /\ ctor = "ready"
  /\ hw = <<>>
  /\ lastOp = NoOp
  /\ calls = <<>>
  /\ attached = FALSE
  /\ panel = PanelInit
  /\ threads \in {{"A"}, {"A", "B"}}
  /\ SpiIdle

NextSPI == \E c \in Callers : SpiStep(c)

SpecSPI == InitSPI /\ [][NextSPI]_vars

\* DisplaySPI(spi, dc, cs, rst, width, height, x_offset, y_offset) being
\* constructed for a controller with one of the init tables, with and
\* without a reset pin.
InitCtor ==
  /\ ConfigInit(MaxPanelDim)
  /\ INIT \in InitTables
  /\ rst \in {"None", "pin"}
  /\ ctor = "c242"
  /\ hw = <<>>
  /\ lastOp = NoOp
  /\ calls = <<>>
  /\ attached = FALSE
  /\ panel = PanelInit
  /\ threads = {}
  /\ SpiIdle

NextCtor == CtorStep \/ InitAgain \/ CtorOp \/ Return

SpecCtor == InitCtor /\ [][NextCtor]_vars

\* ------------------------------------------------------------------ claims
FillOps == {"fill_rectangle", "fill", "hline", "vline"}

\* The window the last operation is about, in panel coordinates
\* <<x0, y0, x1, y1>>: the pixel itself, or the clamped rectangle.
OpWindow ==
  IF lastOp.op \in {"write_pixel", "read_pixel"}
  THEN <<lastOp.x, lastOp.y, lastOp.x, lastOp.y>>
  ELSE <<ClampX(lastOp.x), ClampY(lastOp.y),
         ClampX(lastOp.x) + ClampW(lastOp.x, lastOp.w) - 1,
         ClampY(lastOp.y) + ClampH(lastOp.y, lastOp.h) - 1>>

CountCommand(cmd) == Cardinality({i \in 1..Len(calls) : calls[i].command = cmd})

\* Exactly one column-set, then exactly one page-set, then the RAM command, as
\* the first three transport calls, with the shifted window as payloads.
WindowThenRam ==
  /\ Len(calls) >= 3
  /\ calls[1] = WriteCall("COLUMN_SET", TRUE,
                  encode_pos(OpWindow[1] + X_START, OpWindow[3] + X_START))
  /\ calls[2] = WriteCall("PAGE_SET", TRUE,
                  encode_pos(OpWindow[2] + Y_START, OpWindow[4] + Y_START))
  /\ calls[3].fn = (IF lastOp.op = "read_pixel" THEN "read" ELSE "write")
  /\ calls[3].command = (IF lastOp.op = "read_pixel" THEN "RAM_READ" ELSE "RAM_WRITE")
  /\ CountCommand("COLUMN_SET") = 1
  /\ CountCommand("PAGE_SET") = 1
  /\ CountCommand("RAM_WRITE") + CountCommand("RAM_READ") = 1

\* C1 as stated: every write_pixel, fill_rectangle and read_pixel call issues
\* one column-set and one page-set, in that order, right before its RAM-write
\* or RAM-read command, with encode_position of the shifted window as payload.
C1_EveryCallWindows ==
  lastOp.op \in {"write_pixel", "fill_rectangle", "read_pixel"} => WindowThenRam

\* C1 amended: the same for every fill_rectangle, every write_pixel inside the
\* panel and every read_pixel whose shifted coordinates fit 16 unsigned bits;
\* a write_pixel outside the panel issues nothing, and a read_pixel with a
\* coordinate struct.pack cannot encode raises before any RAM-read.
C1_WindowBeforeRam ==
  /\ (lastOp.op = "fill_rectangle" => WindowThenRam)
  /\ (lastOp.op = "write_pixel" /\ 0 <= lastOp.x /\ lastOp.x < width
        /\ 0 <= lastOp.y /\ lastOp.y < height => WindowThenRam)
  /\ (lastOp.op = "read_pixel" /\ fits_H(lastOp.x + X_START)
        /\ fits_H(lastOp.y + Y_START) => WindowThenRam)
  /\ (lastOp.op = "read_pixel"
        /\ ~(fits_H(lastOp.x + X_START) /\ fits_H(lastOp.y + Y_START))
        => lastOp.raised = "struct.error" /\ CountCommand("RAM_READ") = 0)

\* A read_pixel one column left of the panel on a controller with an offset:
\* the shifted window is column 0 and the read goes through.
C1_Witness ==
  /\ lastOp.op = "read_pixel" /\ lastOp.x = -1 /\ X_START = 1
  /\ lastOp.raised = "" /\ Len(calls) = 3 /\ calls[3].fn = "read"

\* C2: the data bytes fill_rectangle sends after the RAM-write command,
\* concatenated, are the encoded pixel repeated (clamped width * clamped
\* height) times, for every buffer capacity, and every transport call after
\* the RAM-write command is a data-only write.
C2_ChunkingTransparent ==
  lastOp.op \in FillOps =>
    /\ Len(calls) >= 3
    /\ calls[3].command = "RAM_WRITE"
    /\ Concat([i \in 1..(Len(calls) - 2) |-> calls[i + 2].data])
         = Repeat(encode_pixel(lastOp.color),
                  ClampW(lastOp.x, lastOp.w) * ClampH(lastOp.y, lastOp.h))
    /\ \A i \in 4..Len(calls) :
         calls[i].fn = "write" /\ calls[i].command = "None" /\ calls[i].hasData

\* A fill of more pixels than the buffer holds, with a remainder: full chunks
\* and a shorter last chunk.
C2_Witness ==
  /\ lastOp.op = "fill_rectangle"
  /\ ClampW(lastOp.x, lastOp.w) * ClampH(lastOp.y, lastOp.h) > BUFFER_SIZE
  /\ (ClampW(lastOp.x, lastOp.w) * ClampH(lastOp.y, lastOp.h)) % BUFFER_SIZE # 0
  /\ Len(calls) >= 5
  /\ Len(calls[Len(calls)].data) > 0

\* The window on the wire, back in panel coordinates.
WireX0 == U16(calls[1].data, 1) - X_START
WireX1 == U16(calls[1].data, 3) - X_START
WireY0 == U16(calls[2].data, 1) - Y_START
WireY1 == U16(calls[2].data, 3) - Y_START

\* C3: whatever integers fill_rectangle is given, the window it issues has
\* 0 <= x0 <= x1 <= width-1 and 0 <= y0 <= y1 <= height-1, and ends at the
\* panel edge when the requested width / height exceeds the space remaining
\* from the clamped origin.
C3_WindowClamped ==
  lastOp.op = "fill_rectangle" =>
    /\ Len(calls) >= 2
    /\ 0 <= WireX0 /\ WireX0 <= WireX1 /\ WireX1 <= width - 1
    /\ 0 <= WireY0 /\ WireY0 <= WireY1 /\ WireY1 <= height - 1
    /\ (lastOp.w > width - WireX0 => WireX1 = width - 1)
    /\ (lastOp.h > height - WireY0 => WireY1 = height - 1)

\* A fill that starts left of the panel and is wider than it, on a panel
\* more than one pixel wide: clamped at both ends.
C3_Witness ==
  /\ lastOp.op = "fill_rectangle"
  /\ lastOp.x < 0 /\ lastOp.w > width /\ lastOp.h <= 0 /\ width > 1
  /\ Len(calls) >= 3
  /\ WireX0 = 0 /\ WireX1 = width - 1

\* C4: write_pixel outside [0,width) x [0,height) makes no transport call and
\* raises nothing; inside, it makes exactly three: the two window commands
\* and one RAM-write whose data is the encoded pixel.
C4_WritePixelBounds ==
  lastOp.op = "write_pixel" =>
    /\ lastOp.raised = ""
    /\ IF 0 <= lastOp.x /\ lastOp.x < width /\ 0 <= lastOp.y /\ lastOp.y < height
       THEN /\ Len(calls) = 3
            /\ calls[1].fn = "write" /\ calls[1].command = "COLUMN_SET"
            /\ calls[2].fn = "write" /\ calls[2].command = "PAGE_SET"
            /\ calls[3] = WriteCall("RAM_WRITE", TRUE,
                            <<lastOp.color \div 256, lastOp.color % 256>>)
       ELSE calls = <<>>

\* write_pixel(width, 0, color): just past the right edge, nothing sent.
C4_Witness ==
  /\ lastOp.op = "write_pixel" /\ lastOp.x = width /\ lastOp.y = 0
  /\ calls = <<>> /\ lastOp.raised = ""

\* Whether the last operation filled a rectangle that contains (x, y).
FilledOver(x, y) ==
  /\ lastOp.op \in {"fill_rectangle", "fill"}
  /\ 0 <= lastOp.x /\ 1 <= lastOp.w /\ lastOp.x + lastOp.w <= width
  /\ 0 <= lastOp.y /\ 1 <= lastOp.h /\ lastOp.y + lastOp.h <= height
  /\ lastOp.x <= x /\ x < lastOp.x + lastOp.w
  /\ lastOp.y <= y /\ y < lastOp.y + lastOp.h

TransfersOf(id) == SelectSeq(wire, LAMBDA t : t.id = id)

\* C6 as stated: with concurrent callers, no transfer of another call is ever
\* placed between two transfers of one write or read call.
C6_CallExclusive ==
  \A i, j, k \in 1..Len(wire) :
    (i < k /\ k < j /\ wire[i].id = wire[j].id) => wire[k].id = wire[i].id

\* C6 amended: the link is held exclusively for each scoped acquisition, not
\* for the whole call: the transfers of one acquisition belong to one call and
\* are contiguous on the bus, and a read call makes all its transfers in one
\* acquisition (its command and its bytes are never separated); write(command,
\* data) releases the bus between its two transfers, where another caller's
\* transfer can be placed.
C6_AcquisitionExclusive ==
  /\ \A i, j \in 1..Len(wire) :
       wire[i].acq = wire[j].acq =>
         /\ wire[i].id = wire[j].id
         /\ \A k \in 1..Len(wire) : (i < k /\ k < j) => wire[k].acq = wire[i].acq
  /\ \A c \in Callers :
       call[c].fn = "read" =>
         \A i, j \in 1..Len(wire) :
           (wire[i].id = call[c].id /\ wire[j].id = call[c].id)
             => wire[i].acq = wire[j].acq

\* Two callers: one has sent the command and read the bytes of its read call
\* back to back and still holds the bus, the other is waiting to enter.
C6_Witness ==
  \E c, d \in Callers :
    /\ c # d /\ threads = {c, d}
    /\ call[c].fn = "read" /\ pc[c] = "exit" /\ holders = {c}
    /\ Len(TransfersOf(call[c].id)) = 2
    /\ pc[d] \in {"w263", "w267", "r274"}

\* C7: the bus has at most one holder, every transfer is made by a caller
\* that holds it, and a call that has returned or raised no longer holds it.
C7_ScopedAcquisition ==
  /\ Cardinality(holders) <= 1
  /\ \A i \in 1..Len(wire) : wire[i].held
  /\ \A c \in Callers :
       pc[c] \in {"idle", "returned", "raised"} => c \notin holders

\* A write whose command went out and whose data transfer failed: the call
\* has raised and the bus is free.
C7_Witness ==
  \E c \in Callers :
    /\ pc[c] = "raised" /\ call[c].fn = "write" /\ call[c].hasData
    /\ Len(TransfersOf(call[c].id)) = 1
    /\ holders = {}

\* C8: a write(command, data) call with both present that returns has made
\* exactly two transfers, the command byte and then the data, in two different
\* acquisitions; with a single caller every command byte went out with the
\* data/command pin low and every data payload with it high.
C8_WriteTwoTransfers ==
  /\ \A c \in Callers :
       (pc[c] = "returned" /\ call[c].fn = "write" /\ call[c].command # "None"
          /\ call[c].hasData) =>
         LET ts == TransfersOf(call[c].id)
         IN  /\ Len(ts) = 2
             /\ ts[1].kind = "command" /\ ts[1].bytes = <<call[c].command>>
             /\ ts[2].kind = "data" /\ ts[2].bytes = call[c].data
             /\ ts[1].acq # ts[2].acq
  /\ Cardinality(threads) = 1 =>
       \A i \in 1..Len(wire) :
         /\ wire[i].kind = "command" => wire[i].dc = 0
         /\ wire[i].kind = "data" => wire[i].dc = 1

\* A single caller whose second call, a write with command and data, has
\* returned after a first call that left the pin high.
C8_Witness ==
  /\ threads = {"A"} /\ pc["A"] = "returned"
  /\ call["A"].fn = "write" /\ call["A"].command # "None" /\ call["A"].hasData
  /\ call["A"].id = 2
  /\ Len(wire) >= 3 /\ wire[1].kind = "data"
  /\ wire[Len(wire) - 1].dc = 0 /\ wire[Len(wire)].dc = 1

\* C9: a read(command, count) call that returns has made its transfers in one
\* acquisition: the command byte first when a command is given, then one read
\* of count bytes when count is not 0, and nothing else; it returns a buffer
\* of exactly count bytes holding the bytes read; with a single caller the
\* data/command pin was low throughout.
C9_ReadOneAcquisition ==
  \A c \in Callers :
    call[c].fn = "read" =>
      /\ Len(buf[c]) = call[c].count
      /\ pc[c] = "returned" =>
           LET ts == TransfersOf(call[c].id)
               nc == IF call[c].command # "None" THEN 1 ELSE 0
               nr == IF call[c].count # 0 THEN 1 ELSE 0
           IN  /\ Len(ts) = nc + nr
               /\ nc = 1 => ts[1].kind = "command" /\ ts[1].bytes = <<call[c].command>>
               /\ nr = 1 => /\ ts[nc + 1].kind = "readinto"
                            /\ ts[nc + 1].bytes = buf[c]
               /\ \A i \in 1..Len(ts) : ts[i].acq = call[c].acq
               /\ Cardinality(threads) = 1 => \A i \in 1..Len(ts) : ts[i].dc = 0

\* A single caller whose read with a command and two bytes has returned,
\* after a write that left the pin high.
C9_Witness ==
  /\ threads = {"A"} /\ pc["A"] = "returned"
  /\ call["A"].fn = "read" /\ call["A"].command # "None" /\ call["A"].count = 2
  /\ Len(wire) = 3 /\ wire[1].kind = "data" /\ wire[1].dc = 1
  /\ wire[2].kind = "command" /\ wire[3].kind = "readinto"
  /\ buf["A"] = <<165, 165>>

\* What construction did to the reset pin, and its waits, in order.
ResetTrace == SelectSeq(hw, LAMBDA e : e.ev \in {"rst_output", "rst", "sleep"})

\* C10: with a reset pin, construction has driven it low, waited, driven it
\* high and waited, in that order, before the first init command is written
\* (and before construction ends); without a reset pin nothing is done to it.
C10_ResetBeforeInit ==
  /\ (rst # "None" /\ (ctor \in {"c248", "ready", "failed"} \/ InitWritten # <<>>)) =>
       /\ ResetTrace = <<PinEvent("rst_output", 0), PinEvent("rst", 0), SleepEvent(50),
                         PinEvent("rst", 1), SleepEvent(50)>>
       /\ \A i, j \in 1..Len(hw) :
            (hw[i].ev = "write" /\ hw[j].ev \in {"rst_output", "rst", "sleep"}) => j < i
  /\ rst = "None" => ResetTrace = <<>>

\* A display with a reset pin and a three-command init table, constructed.
C10_Witness ==
  /\ rst = "pin" /\ ctor = "ready" /\ Len(INIT) = 3
  /\ Len(hw) = 9 /\ hw[6] = SleepEvent(50) /\ hw[7].ev = "write"

\* The init table as the writes a complete run of Display.init makes.
TableEvents == [i \in 1..Len(INIT) |-> WriteEvent(INIT[i])]

\* The positions in hw of the client's init() calls, and of the first one
\* (past the end when there is none).
InitCalls == {i \in 1..Len(hw) : hw[i].ev = "init_call"}
FirstInitCall ==
  IF InitCalls = {} THEN Len(hw) + 1
  ELSE CHOOSE i \in InitCalls : \A j \in InitCalls : i <= j

\* What the init() of construction wrote.
ConstructionWrites ==
  SelectSeq(SubSeq(hw, 1, FirstInitCall - 1), LAMBDA e : e.ev = "write")

IsPrefix(s, t) == Len(s) <= Len(t) /\ s = SubSeq(t, 1, Len(s))

\* C11: every run of init() writes the pairs of the init table in table order,
\* one write each, nothing added, skipped or repeated; a constructed display
\* has had the whole table written, so any transport call of a later pixel,
\* fill or image operation comes after the complete init sequence; and a
\* second init() that returns has written the same sequence again.
C11_InitReplaysTable ==
  /\ IsPrefix(ConstructionWrites, TableEvents)
  /\ IsPrefix(InitWritten, TableEvents)
  /\ ctor \in {"ready", "c140"} => ConstructionWrites = TableEvents
  /\ calls # <<>> => ctor = "ready" /\ ConstructionWrites = TableEvents
  /\ (lastOp.op = "init" /\ lastOp.raised = "") =>
       InitWritten = ConstructionWrites /\ InitCalls # {}
  /\ (\A i \in 1..Len(hw) : hw[i].ev # "write_raised") =>
       Len(SelectSeq(hw, LAMBDA e : e.ev = "write"))
         <= Len(INIT) * (1 + Cardinality(InitCalls))

\* A display with a three-command table on which init() was called again and
\* has returned: the three writes are in hw twice.
C11_Witness ==
  /\ Len(INIT) = 3 /\ ctor = "ready"
  /\ lastOp.op = "init" /\ lastOp.raised = ""
  /\ Len(SelectSeq(hw, LAMBDA e : e.ev = "write")) = 6

\* C12: when a write of the init table raises during construction, the
\* exception leaves __init__ as the transport raised it, that failed write is
\* the last thing construction did (no further init write, no retry), no
\* display exists (construction never returns) and no operation has run on
\* it; in any run of init() no init write follows a failed one.
C12_InitFailureAborts ==
  /\ \A i \in 1..Len(hw) :
       (hw[i].ev = "write_raised" /\ i < FirstInitCall) =>
         /\ i = Len(hw)
         /\ ctor = "failed"
         /\ lastOp = [op |-> "__init__", raised |-> hw[i].exc, ret |-> PyNone]
         /\ calls = <<>>
  /\ \A i, j \in 1..Len(hw) :
       (i < j /\ hw[i].ev = "write_raised" /\ hw[j].ev \in {"write", "write_raised"})
         => \E k \in InitCalls : i < k /\ k < j
  /\ ctor = "failed" => Len(hw) > 0 /\ hw[Len(hw)].ev = "write_raised"

\* Construction with a reset pin and a three-command table whose second write
\* raised OSError: one init write went out, the display does not exist.
C12_Witness ==
  /\ ctor = "failed" /\ rst = "pin" /\ Len(INIT) = 3
  /\ Len(InitWritten) = 1
  /\ hw[Len(hw)].ev = "write_raised" /\ hw[Len(hw)].command = "COLMOD"
  /\ lastOp.raised = "OSError"

\* The size of the image of the last image call after its rotation.
RotatedSize ==
  IF lastOp.rotation \in {90, 270}
  THEN <<lastOp.img.size[2], lastOp.img.size[1]>> ELSE lastOp.img.size

Pixel565(px) == (px[1] \div 8) * 2048 + (px[2] \div 4) * 32 + (px[3] \div 8)

\* The last image call has sent the whole (rotated) image in one block write:
\* column-set (0, width-1) and page-set (0, height-1), shifted, then one
\* RAM-write whose data has the 565 value of pixel (x, y) high byte first at
\* bytes 2*(y*width + x) and 2*(y*width + x) + 1.
ImageBlockWritten ==
  LET im == rotate(lastOp.img, lastOp.rotation)
  IN  /\ lastOp.raised = ""
      /\ Len(calls) = 3
      /\ calls[1] = WriteCall("COLUMN_SET", TRUE,
                      <<X_START \div 256, X_START % 256,
                        (width - 1 + X_START) \div 256, (width - 1 + X_START) % 256>>)
      /\ calls[2] = WriteCall("PAGE_SET", TRUE,
                      <<Y_START \div 256, Y_START % 256,
                        (height - 1 + Y_START) \div 256, (height - 1 + Y_START) % 256>>)
      /\ calls[3].fn = "write" /\ calls[3].command = "RAM_WRITE"
      /\ Len(calls[3].data) = width * height * 2
      /\ \A x \in 0..(width - 1), y \in 0..(height - 1) :
           /\ calls[3].data[2 * (y * width + x) + 1] = Pixel565(im.px[<<x, y>>]) \div 256
           /\ calls[3].data[2 * (y * width + x) + 2] = Pixel565(im.px[<<x, y>>]) % 256

\* Whether the last operation is an image call the checks let through.
ValidImageCall ==
  /\ lastOp.op = "image"
  /\ lastOp.img.mode \in {"RGB", "RGBA"}
  /\ lastOp.rotation \in {0, 90, 180, 270}
  /\ RotatedSize = <<width, height>>

\* C14 as stated: for a valid image (mode RGB or RGBA, rotation 0, 90, 180 or
\* 270, rotated size equal to the panel's) image builds one buffer of
\* width*height*2 bytes, row-major and big-endian, and sends it with exactly
\* one block write over the whole panel.
C14_ImageBlockWrite == ValidImageCall => ImageBlockWritten

\* The same for RGB images only: what the code does for three-channel pixels.
C14_RgbImageBlockWrite ==
  (ValidImageCall /\ lastOp.img.mode = "RGB") => ImageBlockWritten

\* An RGB image turned by 90 degrees onto a panel that is not square, sent.
C14_Witness ==
  /\ ValidImageCall /\ lastOp.img.mode = "RGB" /\ lastOp.rotation = 90
  /\ width = 3 /\ height = 2 /\ ImageBlockWritten

\* An RGBA image of the panel's size: image raises and nothing is sent.
C14_RgbaRaises ==
  /\ ValidImageCall /\ lastOp.img.mode = "RGBA"
  /\ lastOp.raised = "ValueError" /\ calls = <<>>

\* Whether the last operation is color565 given three channels, as three
\* arguments or as one triple.
PackCall == lastOp.op = "color565" /\ lastOp.form \in {"ints", "tuple"}
ChannelsIn(S) == lastOp.r \in S /\ lastOp.g \in S /\ lastOp.b \in S

\* C15: for r, g, b in 0..255, color565(r, g, b) and color565((r, g, b)) both
\* return a value in 0..65535 whose bits [15:11] are the top 5 bits of r, bits
\* [10:5] the top 6 bits of g and bits [4:0] the top 5 bits of b (truncated).
C15_Pack565 ==
  (PackCall /\ ChannelsIn(0..255)) =>
    /\ lastOp.raised = ""
    /\ lastOp.ret.type = "int"
    /\ LET v == lastOp.ret.val[1]
       IN  /\ v \in 0..65535
           /\ v = (lastOp.r \div 8) * 2048 + (lastOp.g \div 4) * 32 + (lastOp.b \div 8)
           /\ v \div 2048 = lastOp.r \div 8
           /\ (v \div 32) % 64 = lastOp.g \div 4
           /\ v % 32 = lastOp.b \div 8

\* color565((255, 127, 7)) has returned 0xFBE0: each channel cut to its top
\* bits, none rounded up.
C15_Witness ==
  /\ PackCall /\ lastOp.form = "tuple"
  /\ lastOp.r = 255 /\ lastOp.g = 127 /\ lastOp.b = 7
  /\ lastOp.ret = PyInt(64480)

\* C16 as stated: for channel values outside 0..255 color565 raises nothing
\* and returns a value in 0..65535 in which r decides bits [15:11] alone, g
\* bits [10:5] alone and b bits [4:0] alone (each field is what it is when the
\* other two channels are 0).
C16_OutOfRangeMasked ==
  (PackCall /\ ~ChannelsIn(0..255)) =>
    /\ lastOp.raised = ""
    /\ lastOp.ret.type = "int"
    /\ LET v == lastOp.ret.val[1]
       IN  /\ v \in 0..65535
           /\ v \div 2048 = (color565(lastOp.r, 0, 0) \div 2048) % 32
           /\ (v \div 32) % 64 = (color565(0, lastOp.g, 0) \div 32) % 64
           /\ v % 32 = color565(0, 0, lastOp.b) % 32

\* The same for calls whose blue channel is inside 0..255: red and green are
\* masked whatever their value.
C16_RedGreenMasked ==
  (PackCall /\ lastOp.b \in 0..255) =>
    /\ lastOp.raised = ""
    /\ lastOp.ret.type = "int"
    /\ LET v == lastOp.ret.val[1]
       IN  /\ v \in 0..65535
           /\ v \div 2048 = ((lastOp.r % 256) \div 8)
           /\ (v \div 32) % 64 = ((lastOp.g % 256) \div 4)
           /\ v % 32 = lastOp.b \div 8

\* color565(0, 0, 256) has returned 32: the blue channel set bit 5, the lowest
\* bit of the green field.
C16_BlueSpills ==
  /\ PackCall /\ lastOp.r = 0 /\ lastOp.g = 0 /\ lastOp.b = 256
  /\ lastOp.ret = PyInt(32)

\* color565(0, 0, -1) has returned -1, which is no 16-bit value.
C16_BlueNegative ==
  /\ PackCall /\ lastOp.r = 0 /\ lastOp.g = 0 /\ lastOp.b = -1
  /\ lastOp.ret = PyInt(-1)

\* The channels of a 565 value re-expanded to the top bits of a byte:
\* (v >> 8) & 0xF8, (v >> 3) & 0xFC, (v << 3) & 0xF8.
Requantize(v) == <<Mask(v \div 256, 248), Mask(v \div 8, 252), Mask(v * 8, 248)>>

\* C17: for r, g, b in 0..255, packing the re-expanded channels of
\* v = color565(r, g, b) gives v again.
C17_RequantizeIdempotent ==
  (PackCall /\ ChannelsIn(0..255)) =>
    /\ lastOp.ret.type = "int"
    /\ LET v == lastOp.ret.val[1]
           q == Requantize(v)
       IN  /\ q[1] \in 0..255 /\ q[2] \in 0..255 /\ q[3] \in 0..255
           /\ color565(q[1], q[2], q[3]) = v
           /\ color565_unpack(PyTuple(q), 0, 0).ret = v

\* color565(100, 100, 100) has returned 25388, whose re-expanded channels
\* (96, 100, 96) differ from the ones given.
C17_Witness ==
  /\ PackCall /\ lastOp.form = "ints"
  /\ lastOp.r = 100 /\ lastOp.g = 100 /\ lastOp.b = 100
  /\ lastOp.ret = PyInt(25388)
  /\ Requantize(25388) = <<96, 100, 96>>

\* The window and the single RAM-read of read_pixel(x, y): column-set and
\* page-set of the shifted 1x1 rectangle, then a read of one pixel's three bytes.
ReadPixelCalls ==
  calls = <<WriteCall("COLUMN_SET", TRUE,
              <<(lastOp.x + X_START) \div 256, (lastOp.x + X_START) % 256,
                (lastOp.x + X_START) \div 256, (lastOp.x + X_START) % 256>>),
            WriteCall("PAGE_SET", TRUE,
              <<(lastOp.y + Y_START) \div 256, (lastOp.y + Y_START) % 256,
                (lastOp.y + Y_START) \div 256, (lastOp.y + Y_START) % 256>>),
            ReadCall("RAM_READ", 3)>>

C19_ChunkCounts ==
  lastOp.op \in FillOps =>
    LET N == ClampW(lastOp.x, lastOp.w) * ClampH(lastOp.y, lastOp.h)
        C == BUFFER_SIZE
    IN  /\ Len(calls) = 3 + (N \div C) + 1
        /\ calls[3] = WriteCall("RAM_WRITE", TRUE, <<>>)
        /\ \A i \in 4..Len(calls) :
             /\ calls[i].fn = "write" /\ calls[i].command = "None" /\ calls[i].hasData
             /\ Len(calls[i].data) <= 2 * C
             /\ Len(calls[i].data) = IF i < Len(calls) THEN 2 * C ELSE 2 * (N % C)
        /\ Len(Concat([i \in 1..(Len(calls) - 3) |-> calls[i + 3].data])) = 2 * N
        /\ N = (WireX1 - WireX0 + 1) * (WireY1 - WireY0 + 1)

\* A fill of exactly two buffers' worth of pixels: two full writes and a
\* final write of no bytes.
C19_Witness ==
  /\ lastOp.op = "fill_rectangle" /\ BUFFER_SIZE = 2
  /\ ClampW(lastOp.x, lastOp.w) * ClampH(lastOp.y, lastOp.h) = 4
  /\ Len(calls) = 6
  /\ Len(calls[4].data) = 4 /\ Len(calls[5].data) = 4 /\ calls[6].data = <<>>

\* C20 as stated: under any interleaving of the callers, every command byte
\* goes out with the data/command pin low and every data payload of write
\* with the pin high.
C20_PinMatchesTransfer ==
  \A i \in 1..Len(wire) :
    /\ wire[i].kind = "command" => wire[i].dc = 0
    /\ wire[i].kind = "data" => wire[i].dc = 1

\* Two callers: a command byte has gone out on the bus, sent by a caller that
\* held it, while the pin was high.
C20_CommandSentHigh ==
  /\ Cardinality(threads) = 2
  /\ \E i \in 1..Len(wire) :
       wire[i].kind = "command" /\ wire[i].dc = 1 /\ wire[i].held

\* With one caller the pin matches every transfer of write and read.
C20_SingleCallerPin ==
  Cardinality(threads) = 1 =>
    \A i \in 1..Len(wire) :
      /\ wire[i].kind \in {"command", "readinto"} => wire[i].dc = 0
      /\ wire[i].kind = "data" => wire[i].dc = 1

====
